---- MODULE Spec2Model ----
(***************************************************************************)
(* Model of the cart / price-comparison logic of quick-price-checker:      *)
(*   - CartItem.tsx        (getPriceInfo, row display, row handlers)        *)
(*   - PriceComparison.tsx (getUnavailableItems, areAllItemsAvailable,      *)
(*                          sortedPlatforms, bestPlatform)                  *)
(*   - ShopProvider        (getCartTotal; cart store operations)            *)
(*   - Index.tsx           (pagination of the product listing)              *)
(*   - SearchOptimized, cacheProducts / getCachedProducts,                  *)
(*     FilterByPriceRange  (debounced search, localStorage cache, filter)   *)
(* Each part has its own specification; the other parts stay idle in it.   *)
(***************************************************************************)
EXTENDS Integers, Sequences, FiniteSets, TLC

VARIABLES cart, selectedPlatform, platforms, sortedPlatforms

\* Set when the last click was a minus button that made an entry disappear
\* (observed only under SpecQuantity).
VARIABLES removedByDecrease

\* Index.tsx: the product listing page
VARIABLES currentPage, filteredCount, selectedCategory

\* SearchOptimized: the debounced search input
VARIABLES inputValue, searchQuery, timers, mounted, sinceChange, changes, lastCall

\* cacheProducts / getCachedProducts: the localStorage cache
VARIABLES localStorage, now, lastCached, lastGet

\* FilterByPriceRange: the price-range filter
VARIABLES minPrice, maxPrice, filteredProducts, unfilteredProducts

cartVars == <<cart, selectedPlatform, platforms, sortedPlatforms>>
pageVars == <<currentPage, filteredCount, selectedCategory>>
searchVars == <<inputValue, searchQuery, timers, mounted, sinceChange, changes,
                lastCall>>
cacheVars == <<localStorage, now, lastCached, lastGet>>
filterVars == <<minPrice, maxPrice, filteredProducts, unfilteredProducts>>

\* Everything outside the cart and the comparison
outsideCart == <<removedByDecrease, pageVars, searchVars, cacheVars, filterVars>>

vars == <<cartVars, removedByDecrease, pageVars, searchVars, cacheVars, filterVars>>

----------------------------------------------------------------------------
(* Bounds of the model *)
\* MaxCart: entries in the cart; MaxItems: units in the cart (sum of quantities)
MaxCart == 2
MaxItems == 3

----------------------------------------------------------------------------
(* Reference data *)

\* Platform identities (type Platform); NoPlatform stands for undefined/null.
PlatformIds == {"X", "Y", "Z"}
NoPlatform == "none"
MaybePlatform == PlatformIds \cup {NoPlatform}

\* The value of Array.prototype.find when nothing matches (also null).
Undefined == [platform |-> "undefined", price |-> 0, available |-> FALSE]

ProductIds == {"A", "B", "C"}

\* product.prices: at most one tuple per platform.
\*   A: the spec's example product (X 10 available, Y 8 unavailable), no Z tuple
\*   B: available everywhere; C: unavailable on Z, tuples in another order
prices(productId) ==
    CASE productId = "A" ->
           << [platform |-> "X", price |-> 10, available |-> TRUE],
              [platform |-> "Y", price |-> 8,  available |-> FALSE] >>
      [] productId = "B" ->
           << [platform |-> "X", price |-> 5, available |-> TRUE],
              [platform |-> "Y", price |-> 5, available |-> TRUE],
              [platform |-> "Z", price |-> 7, available |-> TRUE] >>
      [] OTHER ->
           << [platform |-> "Z", price |-> 3, available |-> FALSE],
              [platform |-> "Y", price |-> 4, available |-> TRUE],
              [platform |-> "X", price |-> 3, available |-> TRUE] >>

\* The platform lists the comparison may be given (input order matters).
PlatformLists ==
    { <<"X", "Y", "Z">>, <<"Z", "Y", "X">>, <<"Y", "X">>, <<"X", "Y", "X">> }

Platform(id) == [id |-> id, name |-> id]

----------------------------------------------------------------------------
(* Array helpers *)

\* prices.find(p => p.platform === target)
RECURSIVE findFrom(_, _, _)
findFrom(ps, target, i) ==
    IF i > Len(ps) THEN Undefined
    ELSE IF ps[i].platform = target THEN ps[i]
    ELSE findFrom(ps, target, i + 1)

find(ps, target) == findFrom(ps, target, 1)

----------------------------------------------------------------------------
(* CartItem.tsx *)

\* getPriceInfo: const targetPlatform = platformFilter || platform
getPriceInfo(item, platformFilter) ==
    LET targetPlatform ==
            IF platformFilter # NoPlatform THEN platformFilter ELSE item.platform
    IN  IF targetPlatform = NoPlatform THEN Undefined
        ELSE find(prices(item.product), targetPlatform)

\* const isAvailable = priceInfo && priceInfo.available
isAvailable(item, platformFilter) ==
    LET priceInfo == getPriceInfo(item, platformFilter)
    IN  priceInfo # Undefined /\ priceInfo.available

\* const showUnavailableWarning = platformFilter && !isAvailable
showUnavailableWarning(item, platformFilter) ==
    platformFilter # NoPlatform /\ ~isAvailable(item, platformFilter)

\* The price cell of a row: price * quantity, or "Not Available" (here -1).
NotAvailable == -1
rowPrice(item, platformFilter) ==
    IF isAvailable(item, platformFilter)
    THEN getPriceInfo(item, platformFilter).price * item.quantity
    ELSE NotAvailable

----------------------------------------------------------------------------
(* ShopProvider.getCartTotal *)

\* Variant: the price is looked up as (selectedPlatform || item.platform).
RECURSIVE getCartTotalSelectedFirstFrom(_, _, _, _, _)
getCartTotalSelectedFirstFrom(c, platform, selected, i, total) ==
    IF i > Len(c) THEN total
    ELSE LET item == c[i]
             priceInfo == find(prices(item.product),
                               IF selected # NoPlatform
                               THEN selected ELSE item.platform)
         IN  IF platform # NoPlatform /\ item.platform # platform
             THEN getCartTotalSelectedFirstFrom(c, platform, selected, i + 1, total)
             ELSE IF priceInfo # Undefined /\ priceInfo.available
             THEN getCartTotalSelectedFirstFrom(c, platform, selected, i + 1,
                                   total + priceInfo.price * item.quantity)
             ELSE getCartTotalSelectedFirstFrom(c, platform, selected, i + 1, total)

getCartTotalSelectedFirst(c, platform, selected) ==
    getCartTotalSelectedFirstFrom(c, platform, selected, 1, 0)

RECURSIVE getCartTotalFrom(_, _, _, _, _)
getCartTotalFrom(c, platform, selected, i, total) ==
    IF i > Len(c) THEN total
    ELSE LET item == c[i]
             priceInfo == find(prices(item.product),
                               IF item.platform # NoPlatform
                               THEN item.platform ELSE selected)
         IN  IF platform # NoPlatform /\ item.platform # platform
             THEN getCartTotalFrom(c, platform, selected, i + 1, total)
             ELSE IF priceInfo # Undefined /\ priceInfo.available
             THEN getCartTotalFrom(c, platform, selected, i + 1,
                                   total + priceInfo.price * item.quantity)
             ELSE getCartTotalFrom(c, platform, selected, i + 1, total)

getCartTotal(c, platform, selected) ==
    getCartTotalFrom(c, platform, selected, 1, 0)

----------------------------------------------------------------------------
(* PriceComparison.tsx *)

\* Variant: only a missing tuple counts (the availability flag is ignored).
getUnavailableItemsMissingOnly(c, platform) ==
    SelectSeq(c, LAMBDA item :
        find(prices(item.product), platform) = Undefined)

\* cart.filter(item => !priceInfo || !priceInfo.available)
getUnavailableItems(c, platform) ==
    SelectSeq(c, LAMBDA item :
        LET priceInfo == find(prices(item.product), platform)
        IN  priceInfo = Undefined \/ ~priceInfo.available)

\* Variant: the availability flag of the tuple is not looked at.
areAllItemsAvailableAnyTuple(c, platform) ==
    \A i \in 1..Len(c) :
        find(prices(c[i].product), platform) # Undefined

\* Variant: cart.some instead of cart.every.
areAllItemsAvailableSome(c, platform) ==
    \E i \in 1..Len(c) :
        LET priceInfo == find(prices(c[i].product), platform)
        IN  priceInfo # Undefined /\ priceInfo.available

\* cart.every(item => priceInfo && priceInfo.available)
areAllItemsAvailable(c, platform) ==
    \A i \in 1..Len(c) :
        LET priceInfo == find(prices(c[i].product), platform)
        IN  priceInfo # Undefined /\ priceInfo.available

\* Variant: the total is computed for unavailable platforms too (no sentinel).
mappedNoSentinel(c, ps, selected) ==
    [k \in 1..Len(ps) |->
        [id |-> Platform(ps[k]).id,
         name |-> Platform(ps[k]).name,
         unavailableItems |-> getUnavailableItems(c, ps[k]),
         available |-> areAllItemsAvailable(c, ps[k]),
         total |-> getCartTotal(c, ps[k], selected)]]

\* platforms.map(platform => ({...platform, unavailableItems, available, total}))
mapped(c, ps, selected) ==
    [k \in 1..Len(ps) |->
        [id |-> Platform(ps[k]).id,
         name |-> Platform(ps[k]).name,
         unavailableItems |-> getUnavailableItems(c, ps[k]),
         available |-> areAllItemsAvailable(c, ps[k]),
         total |-> IF areAllItemsAvailable(c, ps[k])
                   THEN getCartTotal(c, ps[k], selected) ELSE -1]]

\* Variant: totals compared the other way round (b.total - a.total).
compareDescending(a, b) ==
    IF a.available /\ ~b.available THEN -1
    ELSE IF ~a.available /\ b.available THEN 1
    ELSE b.total - a.total

\* The comparator given to sort
compare(a, b) ==
    IF a.available /\ ~b.available THEN -1
    ELSE IF ~a.available /\ b.available THEN 1
    ELSE a.total - b.total

\* Variant: an unstable sort, which places an element before its equals.
RECURSIVE insertBeforeEquals(_, _, _)
insertBeforeEquals(m, order, k) ==
    IF order = <<>> THEN <<k>>
    ELSE IF compare(m[order[Len(order)]], m[k]) >= 0
         THEN Append(insertBeforeEquals(m, SubSeq(order, 1, Len(order) - 1), k),
                     order[Len(order)])
         ELSE Append(order, k)

\* Array.prototype.sort is stable: an element is inserted after every
\* element already placed that does not compare greater than it.
\* The sort is modelled on the indices of the mapped array.
RECURSIVE insert(_, _, _)
insert(m, order, k) ==
    IF order = <<>> THEN <<k>>
    ELSE IF compare(m[order[Len(order)]], m[k]) > 0
         THEN Append(insert(m, SubSeq(order, 1, Len(order) - 1), k),
                     order[Len(order)])
         ELSE Append(order, k)

RECURSIVE sortFrom(_, _, _)
sortFrom(m, order, k) ==
    IF k > Len(m) THEN order
    ELSE sortFrom(m, insert(m, order, k), k + 1)

sortOrder(m) == sortFrom(m, <<>>, 1)

\* Variant: platforms of the same identity are ranked once.
evaluateDistinct(c, ps, selected) ==
    LET firsts == SelectSeq([k \in 1..Len(ps) |-> k],
                            LAMBDA k : \A l \in 1..(k - 1) : ps[l] # ps[k])
        m == mapped(c, [k \in 1..Len(firsts) |-> ps[firsts[k]]], selected)
        order == sortOrder(m)
    IN  [k \in 1..Len(m) |-> m[order[k]]]

\* const sortedPlatforms = useMemo(() => platforms.map(...).sort(...), [platforms, cart])
evaluate(c, ps, selected) ==
    LET m == mapped(c, ps, selected)
        order == sortOrder(m)
    IN  [k \in 1..Len(m) |-> m[order[k]]]

\* Variant: findLast instead of find.
bestPlatformLast(sorted) ==
    IF \E k \in 1..Len(sorted) : sorted[k].available
    THEN CHOOSE k \in 1..Len(sorted) :
             /\ sorted[k].available
             /\ \A l \in (k + 1)..Len(sorted) : ~sorted[l].available
    ELSE 0

\* const bestPlatform = sortedPlatforms.find(p => p.available); 0 when absent
RECURSIVE bestFrom(_, _)
bestFrom(sorted, i) ==
    IF i > Len(sorted) THEN 0
    ELSE IF sorted[i].available THEN i
    ELSE bestFrom(sorted, i + 1)

bestPlatform(sorted) == bestFrom(sorted, 1)

----------------------------------------------------------------------------
(* Cart store operations (ShopContext) *)

\* Number of units in the cart (the sum of the quantities)
RECURSIVE itemCount(_)
itemCount(c) ==
    IF c = <<>> THEN 0 ELSE c[1].quantity + itemCount(Tail(c))

RECURSIVE findItem(_, _, _, _)
findItem(c, productId, platform, i) ==
    IF i > Len(c) THEN 0
    ELSE IF c[i].product = productId /\ c[i].platform = platform THEN i
    ELSE findItem(c, productId, platform, i + 1)

removeFromCart(c, productId, platform) ==
    SelectSeq(c, LAMBDA item :
        ~(item.product = productId /\ item.platform = platform))

\* Variant: the quantity is stored whatever its value (no removal at 0).
updateCartItemQuantityNoRemoval(c, productId, quantity, platform) ==
    [i \in 1..Len(c) |->
        IF c[i].product = productId /\ c[i].platform = platform
        THEN [c[i] EXCEPT !.quantity = quantity] ELSE c[i]]

updateCartItemQuantity(c, productId, quantity, platform) ==
    IF quantity <= 0 THEN removeFromCart(c, productId, platform)
    ELSE [i \in 1..Len(c) |->
            IF c[i].product = productId /\ c[i].platform = platform
            THEN [c[i] EXCEPT !.quantity = quantity] ELSE c[i]]

addToCart(c, productId, platform) ==
    LET i == findItem(c, productId, platform, 1)
    IN  IF i # 0
        THEN [c EXCEPT ![i].quantity = c[i].quantity + 1]
        ELSE Append(c, [product |-> productId, quantity |-> 1,
                        platform |-> platform])

----------------------------------------------------------------------------
(* The parts of the application a specification leaves aside stay as here *)

CartIdle ==
    /\ cart = <<>>
    /\ selectedPlatform = NoPlatform
    /\ platforms = <<"X", "Y", "Z">>
    /\ sortedPlatforms = <<>>
    /\ removedByDecrease = FALSE

PageIdle ==
    /\ currentPage = 1
    /\ filteredCount = 0
    /\ selectedCategory = "All"

SearchIdle ==
    /\ inputValue = ""
    /\ searchQuery = ""
    /\ timers = {}
    /\ mounted = FALSE
    /\ sinceChange = 0
    /\ changes = 0
    /\ lastCall = <<>>

CacheIdle ==
    /\ localStorage = <<>>
    /\ now = 0
    /\ lastCached = <<>>
    /\ lastGet = <<>>

FilterIdle ==
    /\ minPrice = 0
    /\ maxPrice = 0
    /\ filteredProducts = <<>>
    /\ unfilteredProducts = <<>>

----------------------------------------------------------------------------
(* State machine of the cart and the comparison *)

TypeOK ==
    /\ cart \in Seq([product : ProductIds, quantity : 1..MaxItems,
                     platform : MaybePlatform])
    /\ Len(cart) <= MaxCart
    /\ itemCount(cart) <= MaxItems
    /\ selectedPlatform \in MaybePlatform
    /\ platforms \in PlatformLists

Init ==
    /\ cart = <<>>
    /\ selectedPlatform = NoPlatform
    /\ platforms \in PlatformLists
    /\ sortedPlatforms = evaluate(<<>>, platforms, NoPlatform)
    /\ removedByDecrease = FALSE
    /\ PageIdle /\ SearchIdle /\ CacheIdle /\ FilterIdle

\* A cart change re-renders PriceComparison; the memo depends on [platforms, cart].
SetCart(newCart) ==
    /\ cart' = newCart
    /\ sortedPlatforms' = IF newCart # cart
                          THEN evaluate(newCart, platforms, selectedPlatform)
                          ELSE sortedPlatforms
    /\ UNCHANGED <<selectedPlatform, platforms>>

\* "Add to cart" on a product, with or without a platform
AddToCart ==
    \E productId \in ProductIds, platform \in MaybePlatform :
        LET i == findItem(cart, productId, platform, 1)
        IN  /\ i = 0 => Len(cart) < MaxCart
            /\ itemCount(cart) < MaxItems
            /\ SetCart(addToCart(cart, productId, platform))

\* Plus button of a cart row rendered with platformFilter
IncreaseQuantity ==
    \E i \in 1..Len(cart), platformFilter \in MaybePlatform :
        /\ ~showUnavailableWarning(cart[i], platformFilter)
        /\ itemCount(cart) < MaxItems
        /\ SetCart(updateCartItemQuantity(cart, cart[i].product,
                                          cart[i].quantity + 1, cart[i].platform))

\* Minus button of a cart row rendered with platformFilter
DecreaseQuantity ==
    \E i \in 1..Len(cart), platformFilter \in MaybePlatform :
        /\ ~showUnavailableWarning(cart[i], platformFilter)
        /\ SetCart(updateCartItemQuantity(cart, cart[i].product,
                                          cart[i].quantity - 1, cart[i].platform))

\* Trash button of a cart row rendered with platformFilter
HandleRemove ==
    \E i \in 1..Len(cart), platformFilter \in MaybePlatform :
        /\ ~showUnavailableWarning(cart[i], platformFilter)
        /\ SetCart(removeFromCart(cart, cart[i].product, cart[i].platform))

\* "Select" / "View Issues" button of a comparison row
OnSelectPlatform ==
    \E k \in 1..Len(sortedPlatforms) :
        /\ selectedPlatform' = sortedPlatforms[k].id
        /\ UNCHANGED <<cart, platforms, sortedPlatforms>>

Next ==
    \/ AddToCart /\ UNCHANGED outsideCart
    \/ IncreaseQuantity /\ UNCHANGED outsideCart
    \/ DecreaseQuantity /\ UNCHANGED outsideCart
    \/ HandleRemove /\ UNCHANGED outsideCart
    \/ OnSelectPlatform /\ UNCHANGED outsideCart

Spec == Init /\ [][Next]_vars

\* The same operations, with the effect of the minus button observed.
outsideQuantity == <<pageVars, searchVars, cacheVars, filterVars>>

NextQuantity ==
    \/ AddToCart /\ removedByDecrease' = FALSE /\ UNCHANGED outsideQuantity
    \/ IncreaseQuantity /\ removedByDecrease' = FALSE /\ UNCHANGED outsideQuantity
    \/ DecreaseQuantity /\ removedByDecrease' = (Len(cart') < Len(cart))
                        /\ UNCHANGED outsideQuantity
    \/ HandleRemove /\ removedByDecrease' = FALSE /\ UNCHANGED outsideQuantity
    \/ OnSelectPlatform /\ removedByDecrease' = FALSE /\ UNCHANGED outsideQuantity

SpecQuantity == Init /\ [][NextQuantity]_vars

----------------------------------------------------------------------------
(* Index.tsx: pagination of the product listing *)

\* Products the listing may hold
MaxProducts == 150

productsPerPage == 20

Categories == {"All", "Fruits"}

\* const totalPages = Math.ceil(filteredProducts.length / productsPerPage)
totalPages == (filteredCount + productsPerPage - 1) \div productsPerPage

\* filteredProducts.slice(indexOfFirstProduct, indexOfLastProduct).length
currentProductsLength ==
    LET indexOfLastProduct == currentPage * productsPerPage
        indexOfFirstProduct == indexOfLastProduct - productsPerPage
        from == IF indexOfFirstProduct > filteredCount
                THEN filteredCount ELSE indexOfFirstProduct
        to == IF indexOfLastProduct > filteredCount
              THEN filteredCount ELSE indexOfLastProduct
    IN  IF to > from THEN to - from ELSE 0

\* Variant: the middle window is shifted by one (currentPage - 1 .. + 3).
getPageNumbersShifted ==
    LET startPage ==
            IF totalPages <= 5 THEN 1
            ELSE IF currentPage <= 3 THEN 1
            ELSE IF currentPage + 2 >= totalPages THEN totalPages - 4
            ELSE currentPage - 1
        endPage ==
            IF totalPages <= 5 THEN totalPages
            ELSE IF currentPage <= 3 THEN 5
            ELSE IF currentPage + 2 >= totalPages THEN totalPages
            ELSE currentPage + 3
    IN  [i \in 1..(IF endPage >= startPage THEN endPage - startPage + 1 ELSE 0)
            |-> startPage + i - 1]

\* getPageNumbers of Index
getPageNumbers ==
    LET startPage ==
            IF totalPages <= 5 THEN 1
            ELSE IF currentPage <= 3 THEN 1
            ELSE IF currentPage + 2 >= totalPages THEN totalPages - 4
            ELSE currentPage - 2
        endPage ==
            IF totalPages <= 5 THEN totalPages
            ELSE IF currentPage <= 3 THEN 5
            ELSE IF currentPage + 2 >= totalPages THEN totalPages
            ELSE currentPage + 2
    IN  [i \in 1..(IF endPage >= startPage THEN endPage - startPage + 1 ELSE 0)
            |-> startPage + i - 1]

\* The page buttons of ProductPagination: Array.from({length: Math.min(5, totalPages)}, ...)
pageButtons ==
    [k \in 1..(IF totalPages < 5 THEN totalPages ELSE 5) |->
        LET i == k - 1
        IN  IF totalPages <= 5 THEN i + 1
            ELSE IF currentPage <= 3 THEN i + 1
            ELSE IF currentPage >= totalPages - 2 THEN totalPages - 4 + i
            ELSE currentPage - 2 + i]

\* {totalPages > 5 && currentPage < totalPages - 2 && (... last page button)}
showLastPageButton == totalPages > 5 /\ currentPage < totalPages - 2

\* {totalPages > 1 && (... pagination controls)}
showPagination == totalPages > 1

InitPage ==
    /\ currentPage = 1
    /\ filteredCount \in 0..MaxProducts
    /\ selectedCategory = "All"
    /\ CartIdle /\ SearchIdle /\ CacheIdle /\ FilterIdle

outsidePage == <<cartVars, removedByDecrease, searchVars, cacheVars, filterVars>>

\* goToPage
goToPage(pageNumber) ==
    /\ currentPage' = pageNumber
    /\ UNCHANGED <<filteredCount, selectedCategory>>
    /\ UNCHANGED outsidePage

\* Next-page button
NextPage ==
    /\ showPagination
    /\ currentPage # totalPages
    /\ currentPage < totalPages
    /\ goToPage(currentPage + 1)

\* Previous-page button
PrevPage ==
    /\ showPagination
    /\ currentPage # 1
    /\ currentPage > 1
    /\ goToPage(currentPage - 1)

\* One of the numbered page buttons
PageButton ==
    /\ showPagination
    /\ \E k \in 1..Len(getPageNumbers) : goToPage(getPageNumbers[k])

\* The last-page button after the ellipsis
LastPageButton ==
    /\ showPagination
    /\ showLastPageButton
    /\ goToPage(totalPages)

\* The category changes (and with it the filtered products); the effect on
\* [selectedCategory] resets the page.
CategoryChange ==
    /\ \E category \in Categories \ {selectedCategory} :
           selectedCategory' = category
    /\ filteredCount' \in 0..MaxProducts
    /\ currentPage' = 1
    /\ UNCHANGED outsidePage

\* filteredProducts changes through search, sorting or filtering
FilteredProductsChange ==
    /\ filteredCount' \in 0..MaxProducts
    /\ UNCHANGED <<currentPage, selectedCategory>>
    /\ UNCHANGED outsidePage

NextPageSpec ==
    \/ NextPage
    \/ PrevPage
    \/ PageButton
    \/ LastPageButton
    \/ CategoryChange
    \/ FilteredProductsChange

SpecPage == InitPage /\ [][NextPageSpec]_vars

----------------------------------------------------------------------------
(* SearchOptimized: the debounced search input *)

\* Input changes followed in one behaviour
MaxChanges == 3

\* Milliseconds by which the clock advances in one step
TickMs == 100

\* setTimeout(..., 300)
Delay == 300

InputValues == {"", "a", "ab"}

Min(a, b) == IF a < b THEN a ELSE b

\* The effect on [inputValue, setSearchQuery]: setTimeout(() => setSearchQuery(inputValue), 300)
scheduled(value) == [value |-> value, elapsed |-> 0]

\* Mounted, first effect run: a timer for the initial input value '' is pending.
InitSearch ==
    /\ inputValue = ""
    /\ searchQuery \in InputValues
    /\ timers = {scheduled("")}
    /\ mounted = TRUE
    /\ sinceChange = 0
    /\ changes = 0
    /\ lastCall = <<>>
    /\ CartIdle /\ PageIdle /\ CacheIdle /\ FilterIdle

outsideSearch == <<cartVars, removedByDecrease, pageVars, cacheVars, filterVars>>

\* Variant: the effect returns no cleanup, the previous timer stays pending.
onChangeNoCleanup(value) ==
    /\ inputValue' = value
    /\ timers' = timers \cup {scheduled(value)}
    /\ sinceChange' = 0
    /\ changes' = changes + 1
    /\ UNCHANGED <<searchQuery, mounted, lastCall>>
    /\ UNCHANGED outsideSearch

\* onChange: setInputValue(e.target.value); the re-render runs the cleanup of
\* the previous effect (clearTimeout) and schedules a new timer.
onChange(value) ==
    /\ inputValue' = value
    /\ timers' = {scheduled(value)}
    /\ sinceChange' = 0
    /\ changes' = changes + 1
    /\ UNCHANGED <<searchQuery, mounted, lastCall>>
    /\ UNCHANGED outsideSearch

\* The user edits the input
InputChange ==
    /\ mounted
    /\ changes < MaxChanges
    /\ \E value \in InputValues \ {inputValue} : onChange(value)

\* Time passes (timers never run before their delay; the counters stop at Delay)
Tick ==
    /\ \/ sinceChange < Delay
       \/ \E t \in timers : t.elapsed < Delay
    /\ timers' = {[t EXCEPT !.elapsed = Min(t.elapsed + TickMs, Delay)] : t \in timers}
    /\ sinceChange' = Min(sinceChange + TickMs, Delay)
    /\ UNCHANGED <<inputValue, searchQuery, mounted, changes, lastCall>>
    /\ UNCHANGED outsideSearch

\* A timer that is due runs its callback: setSearchQuery(inputValue of its render)
TimerFires ==
    \E t \in timers :
        /\ t.elapsed >= Delay
        /\ searchQuery' = t.value
        /\ timers' = timers \ {t}
        /\ lastCall' = << [value |-> t.value, input |-> inputValue,
                           since |-> sinceChange] >>
        /\ UNCHANGED <<inputValue, mounted, sinceChange, changes>>
        /\ UNCHANGED outsideSearch

\* The component unmounts: the cleanup of the last effect clears its timer
Unmount ==
    /\ mounted
    /\ mounted' = FALSE
    /\ timers' = {}
    /\ UNCHANGED <<inputValue, searchQuery, sinceChange, changes, lastCall>>
    /\ UNCHANGED outsideSearch

NextSearch ==
    \/ InputChange
    \/ Tick
    \/ TimerFires
    \/ Unmount

\* Time passes and a due timer runs (the browser's event loop)
SpecSearch ==
    /\ InitSearch
    /\ [][NextSearch]_vars
    /\ WF_vars(Tick)
    /\ WF_vars(TimerFires)

----------------------------------------------------------------------------
(* cacheProducts / getCachedProducts: the localStorage cache *)

\* Clock steps followed in one behaviour
MaxClockSteps == 4

\* if (cacheAge < 3600000)
OneHour == 3600000

\* The clock advances by half an hour at a time
ClockStep == OneHour \div 2

\* The product lists handed to cacheProducts (a product stands as its id)
ProductLists == { <<>>, <<1>>, <<2, 1>> }

\* Strings are sequences of characters; getItem gives <<>> (null) or <<string>>.
Digits == <<"0", "1", "2", "3", "4", "5", "6", "7", "8", "9">>

isDigit(ch) == \E d \in 1..10 : Digits[d] = ch

digitValue(ch) == (CHOOSE d \in 1..10 : Digits[d] = ch) - 1

\* Number.prototype.toString
RECURSIVE toString(_)
toString(n) ==
    IF n < 10 THEN <<Digits[n + 1]>>
    ELSE Append(toString(n \div 10), Digits[(n % 10) + 1])

\* parseInt: the number spelled by the leading digits; <<>> stands for NaN
RECURSIVE parseDigits(_, _, _)
parseDigits(str, i, value) ==
    IF i > Len(str) \/ ~isDigit(str[i]) THEN value
    ELSE parseDigits(str, i + 1, value * 10 + digitValue(str[i]))

parseInt(str) ==
    IF str = <<>> \/ ~isDigit(str[1]) THEN <<>>
    ELSE <<parseDigits(str, 1, 0)>>

\* JSON.stringify of a product list: [id,id,...]
RECURSIVE joinFrom(_, _)
joinFrom(products, i) ==
    IF i > Len(products) THEN <<>>
    ELSE (IF i > 1 THEN <<",">> ELSE <<>>)
             \o toString(products[i]) \o joinFrom(products, i + 1)

stringify(products) == <<"[">> \o joinFrom(products, 1) \o <<"]">>

\* JSON.parse: [ok |-> FALSE] stands for the SyntaxError it throws
RECURSIVE parseElements(_, _, _)
parseElements(str, i, acc) ==
    \* str[i] starts an element; the list ends with "]" after an element
    IF i > Len(str) \/ ~isDigit(str[i]) THEN [ok |-> FALSE, value |-> <<>>]
    ELSE LET n == parseDigits(SubSeq(str, i, Len(str)), 1, 0)
             j == i + Len(toString(n))
         IN  IF j = Len(str) /\ str[j] = "]"
             THEN [ok |-> TRUE, value |-> Append(acc, n)]
             ELSE IF j < Len(str) /\ str[j] = ","
             THEN parseElements(str, j + 1, Append(acc, n))
             ELSE [ok |-> FALSE, value |-> <<>>]

parse(str) ==
    IF Len(str) < 2 \/ str[1] # "[" THEN [ok |-> FALSE, value |-> <<>>]
    ELSE IF Len(str) = 2
         THEN [ok |-> str[2] = "]", value |-> <<>>]
         ELSE parseElements(str, 2, <<>>)

\* Variant: a cache of exactly one hour still counts (cacheAge <= 3600000).
getCachedProductsInclusive(storage, dateNow, storageFails) ==
    IF storageFails THEN <<>>
    ELSE LET cachedProducts == storage.cachedProducts
             timestamp == storage.productsTimestamp
         IN  IF cachedProducts # <<>> /\ cachedProducts[1] # <<>>
                /\ timestamp # <<>> /\ timestamp[1] # <<>>
             THEN LET parsed == parseInt(timestamp[1])
                  IN  IF parsed # <<>> /\ dateNow - parsed[1] <= OneHour
                      THEN (IF parse(cachedProducts[1]).ok
                            THEN <<parse(cachedProducts[1]).value>> ELSE <<>>)
                      ELSE <<>>
             ELSE <<>>

\* getCachedProducts: <<>> stands for null, <<products>> for a returned list;
\* an exception of getItem (storageFails) or of JSON.parse is caught.
getCachedProducts(storage, dateNow, storageFails) ==
    IF storageFails THEN <<>>
    ELSE LET cachedProducts == storage.cachedProducts
             timestamp == storage.productsTimestamp
         IN  IF cachedProducts # <<>> /\ cachedProducts[1] # <<>>
                /\ timestamp # <<>> /\ timestamp[1] # <<>>
             THEN LET parsed == parseInt(timestamp[1])
                  IN  IF parsed # <<>> /\ dateNow - parsed[1] < OneHour
                      THEN (IF parse(cachedProducts[1]).ok
                            THEN <<parse(cachedProducts[1]).value>> ELSE <<>>)
                      ELSE <<>>
             ELSE <<>>

\* cacheProducts: the two setItem calls; `thrown` is the call that throws
\* (0: none, 1: the first, 2: the second), the exception is caught.
cacheProducts(storage, products, dateNow, thrown) ==
    IF thrown = 1 THEN storage
    ELSE IF thrown = 2
         THEN [storage EXCEPT !.cachedProducts = <<stringify(products)>>]
         ELSE [cachedProducts |-> <<stringify(products)>>,
               productsTimestamp |-> <<toString(dateNow)>>]

\* What a truncated or foreign write leaves under a key
Garbage == <<"[", "1", ",">>

InitCache ==
    /\ localStorage = [cachedProducts |-> <<>>, productsTimestamp |-> <<>>]
    /\ now = 0
    /\ lastCached = [products |-> <<>>, intact |-> TRUE, stamp |-> <<>>]
    /\ lastGet = <<>>
    /\ CartIdle /\ PageIdle /\ SearchIdle /\ FilterIdle

outsideCache == <<cartVars, removedByDecrease, pageVars, searchVars, filterVars>>

\* A call of cacheProducts(products)
CacheProducts ==
    \E products \in ProductLists, thrown \in 0..2 :
        /\ localStorage' = cacheProducts(localStorage, products, now, thrown)
        /\ lastCached' =
              IF thrown = 1 THEN lastCached
              ELSE IF thrown = 2
                   THEN [lastCached EXCEPT !.products = <<products>>,
                                           !.intact = TRUE]
                   ELSE [products |-> <<products>>, intact |-> TRUE,
                         stamp |-> <<now>>]
        /\ UNCHANGED <<now, lastGet>>
        /\ UNCHANGED outsideCache

\* A call of getCachedProducts(); what it returns is recorded with the state
\* of the cache at the call.
GetCachedProducts ==
    \E storageFails \in BOOLEAN :
        /\ lastGet' = << [returned |-> getCachedProducts(localStorage, now,
                                                         storageFails),
                          products |-> lastCached.products,
                          intact |-> lastCached.intact,
                          stamp |-> lastCached.stamp,
                          at |-> now,
                          failed |-> storageFails] >>
        /\ UNCHANGED <<localStorage, now, lastCached>>
        /\ UNCHANGED outsideCache

\* Time passes
ClockTick ==
    /\ now < MaxClockSteps * ClockStep
    /\ now' = now + ClockStep
    /\ UNCHANGED <<localStorage, lastCached, lastGet>>
    /\ UNCHANGED outsideCache

\* The site data is cleared (both entries disappear)
StorageCleared ==
    /\ localStorage' = [cachedProducts |-> <<>>, productsTimestamp |-> <<>>]
    /\ lastCached' = [products |-> <<>>, intact |-> TRUE, stamp |-> <<>>]
    /\ UNCHANGED <<now, lastGet>>
    /\ UNCHANGED outsideCache

\* Something else overwrites an existing entry with text that is neither
\* JSON nor a number
StorageGarbled ==
    /\ \/ /\ localStorage.cachedProducts # <<>>
          /\ localStorage' = [localStorage EXCEPT !.cachedProducts = <<Garbage>>]
          /\ lastCached' = [lastCached EXCEPT !.intact = FALSE]
       \/ /\ localStorage.productsTimestamp # <<>>
          /\ localStorage' = [localStorage EXCEPT !.productsTimestamp = <<Garbage>>]
          /\ lastCached' = [lastCached EXCEPT !.stamp = <<>>]
    /\ UNCHANGED <<now, lastGet>>
    /\ UNCHANGED outsideCache

NextCache ==
    \/ CacheProducts
    \/ GetCachedProducts
    \/ ClockTick
    \/ StorageCleared
    \/ StorageGarbled

SpecCache == InitCache /\ [][NextCache]_vars

----------------------------------------------------------------------------
(* FilterByPriceRange: the price-range filter *)

\* useState(0) and useState(1000)
InitialMinPrice == 0
InitialMaxPrice == 1000

\* The numbers typed into the two inputs
PriceInputs == {0, 4, 6, 9, 1000}

\* The filtered product lists the component may find when it mounts
Listings == { <<"A", "B", "C">>, <<"C", "A", "B">>, <<"B", "A">>, <<"C">> }

\* product.prices.some(price => price.available && price.price >= minPrice
\*                               && price.price <= maxPrice)
inPriceRange(productId, min, max) ==
    \E k \in 1..Len(prices(productId)) :
        /\ prices(productId)[k].available
        /\ prices(productId)[k].price >= min
        /\ prices(productId)[k].price <= max

\* The effect on [minPrice, maxPrice, setFilteredProducts]:
\* setFilteredProducts(prevFiltered => prevFiltered.filter(...))
applyPriceFilter(prevFiltered, min, max) ==
    SelectSeq(prevFiltered, LAMBDA productId : inPriceRange(productId, min, max))

\* Mounted, first effect run
InitFilter ==
    /\ unfilteredProducts \in Listings
    /\ minPrice = InitialMinPrice
    /\ maxPrice = InitialMaxPrice
    /\ filteredProducts =
           applyPriceFilter(unfilteredProducts, InitialMinPrice, InitialMaxPrice)
    /\ CartIdle /\ PageIdle /\ SearchIdle /\ CacheIdle

outsideFilter == <<cartVars, removedByDecrease, pageVars, searchVars, cacheVars>>

\* onChange of the minimum input: setMinPrice(Number(e.target.value))
SetMinPrice ==
    \E value \in PriceInputs \ {minPrice} :
        /\ minPrice' = value
        /\ filteredProducts' = applyPriceFilter(filteredProducts, value, maxPrice)
        /\ UNCHANGED <<maxPrice, unfilteredProducts>>
        /\ UNCHANGED outsideFilter

\* onChange of the maximum input: setMaxPrice(Number(e.target.value))
SetMaxPrice ==
    \E value \in PriceInputs \ {maxPrice} :
        /\ maxPrice' = value
        /\ filteredProducts' = applyPriceFilter(filteredProducts, minPrice, value)
        /\ UNCHANGED <<minPrice, unfilteredProducts>>
        /\ UNCHANGED outsideFilter

NextFilter ==
    \/ SetMinPrice
    \/ SetMaxPrice

SpecFilter == InitFilter /\ [][NextFilter]_vars

----------------------------------------------------------------------------
(* Properties *)

\* C1: for every platform P the comparison reports available, the total
\* shown for P is the sum over ALL cart entries of price * quantity, a pinned
\* entry priced on its pinned platform and an unpinned entry priced on P
\* (stated for carts in which every such price exists and is available).
C1_TotalSumsAllEntries ==
    \A k \in 1..Len(sortedPlatforms) :
        LET P == sortedPlatforms[k].id
            resolved(item) ==
                IF item.platform # NoPlatform THEN item.platform ELSE P
            tuple(item) == find(prices(item.product), resolved(item))
            RECURSIVE sum(_)
            sum(i) == IF i = 0 THEN 0
                      ELSE sum(i - 1) + tuple(cart[i]).price * cart[i].quantity
        IN  (/\ sortedPlatforms[k].available
             /\ \A i \in 1..Len(cart) : tuple(cart[i]).available)
            => sortedPlatforms[k].total = sum(Len(cart))

\* C2: the per-entry price lookup uses the pinned platform's tuple whenever
\* the entry has a pinned platform, whatever the context (filter) platform,
\* and the context platform's tuple only for an entry without a pinned one.
C2_PinnedPlatformWins ==
    \A i \in 1..Len(cart), contextPlatform \in PlatformIds :
        getPriceInfo(cart[i], contextPlatform) =
            find(prices(cart[i].product),
                 IF cart[i].platform # NoPlatform
                 THEN cart[i].platform ELSE contextPlatform)

\* C3: in the ranked sequence every available platform precedes every
\* unavailable one, and the totals of the available ones are non-decreasing.
C3_AvailableFirstAscending ==
    \A i, j \in 1..Len(sortedPlatforms) :
        i < j =>
            /\ sortedPlatforms[j].available => sortedPlatforms[i].available
            /\ sortedPlatforms[j].available =>
                   sortedPlatforms[i].total <= sortedPlatforms[j].total

\* A ranking that reordered the input: two available platforms with
\* different totals followed by an unavailable one.
C3_Witness ==
    /\ Len(sortedPlatforms) = 3
    /\ sortedPlatforms[1].available /\ sortedPlatforms[2].available
    /\ ~sortedPlatforms[3].available
    /\ sortedPlatforms[1].total < sortedPlatforms[2].total
    /\ sortedPlatforms[1].id # platforms[1]

\* C4: the best deal is the first available element of the ranked sequence,
\* is absent exactly when no platform is fully available, and has a total no
\* greater than that of any other fully available platform.
C4_BestDeal ==
    LET b == bestPlatform(sortedPlatforms)
    IN  /\ b = 0 <=> \A k \in 1..Len(sortedPlatforms) :
                         ~sortedPlatforms[k].available
        /\ b # 0 =>
            /\ sortedPlatforms[b].available
            /\ \A k \in 1..(b - 1) : ~sortedPlatforms[k].available
            /\ \A k \in 1..Len(sortedPlatforms) :
                   sortedPlatforms[k].available =>
                       sortedPlatforms[b].total <= sortedPlatforms[k].total

\* A best deal that is strictly cheaper than another available platform
\* which comes earlier in the input list.
C4_Witness ==
    /\ bestPlatform(sortedPlatforms) # 0
    /\ \E a, b \in 1..Len(platforms) :
          /\ a < b
          /\ platforms[b] = sortedPlatforms[bestPlatform(sortedPlatforms)].id
          /\ \E k \in 1..Len(sortedPlatforms) :
                /\ sortedPlatforms[k].id = platforms[a]
                /\ sortedPlatforms[k].available
                /\ sortedPlatforms[k].total >
                       sortedPlatforms[bestPlatform(sortedPlatforms)].total

\* C5: a platform is reported available iff its unavailableItems is empty.
C5_AvailableIffNoUnavailableItems ==
    \A k \in 1..Len(sortedPlatforms) :
        sortedPlatforms[k].available <=>
            sortedPlatforms[k].unavailableItems = <<>>

\* A non-empty cart with one platform fully available and another one
\* lacking an item whose tuple exists but is flagged unavailable.
C5_Witness ==
    /\ cart # <<>>
    /\ \E k, l \in 1..Len(sortedPlatforms) :
          /\ sortedPlatforms[k].available
          /\ ~sortedPlatforms[l].available
          /\ \E i \in 1..Len(sortedPlatforms[l].unavailableItems) :
                find(prices(sortedPlatforms[l].unavailableItems[i].product),
                     sortedPlatforms[l].id) # Undefined

\* C6: with an empty cart every platform is available with total 0, the
\* ranked sequence is the platform list in input order and the best deal is
\* the first platform of the input.
C6_EmptyCart ==
    cart = <<>> =>
        /\ Len(sortedPlatforms) = Len(platforms)
        /\ \A k \in 1..Len(platforms) :
              /\ sortedPlatforms[k].id = platforms[k]
              /\ sortedPlatforms[k].available
              /\ sortedPlatforms[k].total = 0
              /\ sortedPlatforms[k].unavailableItems = <<>>
        /\ bestPlatform(sortedPlatforms) = 1

\* The cart is empty while a platform is selected (the comparison has been
\* used) and three platforms are compared.
C6_Witness ==
    /\ cart = <<>>
    /\ selectedPlatform # NoPlatform
    /\ Len(sortedPlatforms) = 3

\* C7: the ranking is stable: the ranked sequence is a rearrangement of the
\* per-platform results in which results with equal (available, total) keep
\* their input order.
C7_StableRanking ==
    LET m == mapped(cart, platforms, selectedPlatform)
        n == Len(m)
    IN  /\ Len(sortedPlatforms) = n
        /\ \E order \in Permutations(1..n) :
              /\ \A k \in 1..n : sortedPlatforms[k] = m[order[k]]
              /\ \A i, j \in 1..n :
                    (/\ i < j
                     /\ m[order[i]].available = m[order[j]].available
                     /\ m[order[i]].total = m[order[j]].total)
                    => order[i] < order[j]

\* Equal keys next to a reordering: two unavailable platforms, in input
\* order, after an available platform that was last in the input.
C7_Witness ==
    /\ Len(sortedPlatforms) = 3
    /\ sortedPlatforms[1].id = platforms[3]
    /\ sortedPlatforms[1].id # platforms[1]
    /\ ~sortedPlatforms[2].available /\ ~sortedPlatforms[3].available
    /\ sortedPlatforms[2].id = platforms[1]
    /\ sortedPlatforms[3].id = platforms[2]

\* C8: a missing or unavailable price tuple is never an error: for every
\* platform P, unavailableItems(P) is exactly the cart entries without an
\* available tuple for P, in cart order, each row viewed with filter P shows
\* such an entry as not available, and a row for which no platform can be
\* resolved is shown as not available too.
C8_MissingTupleIsUnavailable ==
    /\ \A P \in PlatformIds :
        LET lacks(item) ==
                ~\E t \in 1..Len(prices(item.product)) :
                      /\ prices(item.product)[t].platform = P
                      /\ prices(item.product)[t].available
            u == getUnavailableItems(cart, P)
        IN  /\ \A i \in 1..Len(cart) :
                  lacks(cart[i]) <=> \E j \in 1..Len(u) : u[j] = cart[i]
            /\ Len(u) = Cardinality({i \in 1..Len(cart) : lacks(cart[i])})
            /\ \A j1, j2 \in 1..Len(u) :
                  j1 < j2 => \E i1, i2 \in 1..Len(cart) :
                                 i1 < i2 /\ cart[i1] = u[j1] /\ cart[i2] = u[j2]
            /\ \A i \in 1..Len(cart) :
                  lacks(cart[i]) => rowPrice(cart[i], P) = NotAvailable
            /\ \A k \in 1..Len(sortedPlatforms) :
                  sortedPlatforms[k].id = P =>
                      sortedPlatforms[k].unavailableItems = u
    /\ \A i \in 1..Len(cart) :
          cart[i].platform = NoPlatform =>
              rowPrice(cart[i], NoPlatform) = NotAvailable

\* A cart of two entries, the first without any tuple for Z and with no
\* platform of its own, the second with a tuple for Z flagged unavailable:
\* both are listed for Z, in cart order.
C8_Witness ==
    /\ Len(cart) = 2
    /\ cart[1].platform = NoPlatform
    /\ find(prices(cart[1].product), "Z") = Undefined
    /\ find(prices(cart[2].product), "Z") # Undefined
    /\ getUnavailableItems(cart, "Z") = cart

\* C9: for every platform P the comparison reports available, the total it
\* shows equals the sum of the amounts the cart rows show under filter P, and
\* a row shows "Not Available" under filter P iff its entry is in
\* unavailableItems(P).
C9_CartViewMatchesComparison ==
    \A k \in 1..Len(sortedPlatforms) :
        LET P == sortedPlatforms[k].id
            u == sortedPlatforms[k].unavailableItems
            RECURSIVE rows(_)
            rows(i) == IF i = 0 THEN 0
                       ELSE rows(i - 1) + rowPrice(cart[i], P)
        IN  /\ sortedPlatforms[k].available =>
                  sortedPlatforms[k].total = rows(Len(cart))
            /\ \A i \in 1..Len(cart) :
                  rowPrice(cart[i], P) = NotAvailable
                      <=> \E j \in 1..Len(u) : u[j] = cart[i]

\* C10: what the comparison displays is the evaluation of the current cart
\* against the current platform list, and that evaluation is the same
\* whichever platform is selected.
C10_EvaluationDependsOnInputsOnly ==
    /\ sortedPlatforms = evaluate(cart, platforms, selectedPlatform)
    /\ \A selected \in MaybePlatform :
          evaluate(cart, platforms, selected) =
              evaluate(cart, platforms, selectedPlatform)

\* A platform is selected while the cart holds an entry pinned to another
\* platform and an unpinned entry, and some available platform has a
\* non-zero total.
C10_Witness ==
    /\ selectedPlatform # NoPlatform
    /\ \E i, j \in 1..Len(cart) :
          /\ cart[i].platform \notin {NoPlatform, selectedPlatform}
          /\ cart[j].platform = NoPlatform
    /\ \E k \in 1..Len(sortedPlatforms) : sortedPlatforms[k].total > 0

\* C11: after any sequence of add, update-quantity and remove operations no
\* cart entry has a quantity of 0 or less: a minus button pressed on an entry
\* of quantity 1 removes the entry.
C11_NoEntryWithoutQuantity ==
    /\ \A i \in 1..Len(cart) : cart[i].quantity >= 1
    /\ removedByDecrease => Len(cart) < MaxCart

\* The minus button has just made an entry disappear, and another entry is
\* still in the cart.
C11_Witness ==
    /\ removedByDecrease
    /\ Len(cart) = 1

\* C12: a platform result has the total -1 exactly when it is not available,
\* and the total of an available platform is not negative.
C12_SentinelIffUnavailable ==
    \A k \in 1..Len(sortedPlatforms) :
        /\ sortedPlatforms[k].total = -1 <=> ~sortedPlatforms[k].available
        /\ sortedPlatforms[k].available => sortedPlatforms[k].total >= 0

\* An unavailable platform next to an available one with a positive total,
\* the cart holding an entry pinned to the unavailable platform (whose
\* cart total would be positive).
C12_Witness ==
    \E k, l \in 1..Len(sortedPlatforms) :
        /\ sortedPlatforms[k].available /\ sortedPlatforms[k].total > 0
        /\ ~sortedPlatforms[l].available
        /\ getCartTotal(cart, sortedPlatforms[l].id, selectedPlatform) > 0

\* C13: the ranked sequence holds one result per element of the platform
\* list, nothing dropped and nothing merged: every identity occurs as often
\* as in the input, and results of the same identity are identical.
C13_OneResultPerPlatform ==
    /\ Len(sortedPlatforms) = Len(platforms)
    /\ \A id \in PlatformIds :
          Cardinality({k \in 1..Len(sortedPlatforms) : sortedPlatforms[k].id = id})
              = Cardinality({k \in 1..Len(platforms) : platforms[k] = id})
    /\ \A k, l \in 1..Len(sortedPlatforms) :
          sortedPlatforms[k].id = sortedPlatforms[l].id =>
              sortedPlatforms[k] = sortedPlatforms[l]
    /\ \A k \in 1..Len(sortedPlatforms) :
          /\ sortedPlatforms[k].available =
                 areAllItemsAvailable(cart, sortedPlatforms[k].id)
          /\ sortedPlatforms[k].unavailableItems =
                 getUnavailableItems(cart, sortedPlatforms[k].id)

\* A platform list naming one platform twice (first and last), ranked for a
\* cart that leaves only that platform available: its two results, with a
\* positive total, head the ranking.
C13_Witness ==
    /\ \E a, b \in 1..Len(platforms) : a < b /\ platforms[a] = platforms[b]
    /\ Len(sortedPlatforms) = 3
    /\ sortedPlatforms[1].id = sortedPlatforms[2].id
    /\ sortedPlatforms[1].available /\ sortedPlatforms[1].total > 0
    /\ ~sortedPlatforms[3].available

\* C14: on the listing page, whatever the sequence of page clicks, category
\* changes and changes of the filtered product list, the current page lies
\* in 1..totalPages whenever totalPages >= 1, so the page shown is not empty
\* when the filtered list is not empty.
C14_CurrentPageInRange ==
    /\ totalPages >= 1 => (1 <= currentPage /\ currentPage <= totalPages)
    /\ filteredCount > 0 => currentProductsLength > 0

\* C15: for currentPage in 1..totalPages, the page buttons are
\* min(5, totalPages) consecutive ascending page numbers within 1..totalPages
\* that contain currentPage; the last-page button is shown only when
\* totalPages is not among them, and the last page is one click away.
C15_PageNumbersWindow ==
    (totalPages >= 1 /\ currentPage \in 1..totalPages) =>
        /\ Len(getPageNumbers) = (IF totalPages < 5 THEN totalPages ELSE 5)
        /\ \A k \in 1..Len(getPageNumbers) : getPageNumbers[k] \in 1..totalPages
        /\ \A k \in 1..(Len(getPageNumbers) - 1) :
               getPageNumbers[k + 1] = getPageNumbers[k] + 1
        /\ \E k \in 1..Len(getPageNumbers) : getPageNumbers[k] = currentPage
        /\ showLastPageButton =>
               \A k \in 1..Len(getPageNumbers) : getPageNumbers[k] # totalPages
        /\ showLastPageButton
               \/ \E k \in 1..Len(getPageNumbers) : getPageNumbers[k] = totalPages
        /\ pageButtons = getPageNumbers

\* A page in the middle of a long listing, reached by clicking: the window
\* starts after page 1 and ends before the last page.
C15_Witness ==
    /\ totalPages >= 7
    /\ currentPage > 3
    /\ currentPage < totalPages - 2
    /\ getPageNumbers[1] = currentPage - 2
    /\ showLastPageButton

\* C16 (state part): at most one timer is pending, none after unmounting,
\* and the last call of setSearchQuery passed the input value of that moment,
\* unchanged for the whole delay.
C16_DebounceState ==
    /\ Cardinality(timers) <= 1
    /\ ~mounted => timers = {}
    /\ \A t \in timers : t.value = inputValue /\ t.elapsed = sinceChange
    /\ lastCall # <<>> =>
          /\ lastCall[1].value = lastCall[1].input
          /\ lastCall[1].since >= Delay

\* C16: setSearchQuery is only called with a value that has been the input
\* value for the full delay (every change cancels the pending timer, so at
\* most one is pending and no superseded value is passed; unmounting cancels
\* it), and once the input stops changing the search query becomes the last
\* input value, as long as the component stays mounted.
C16_Debounce ==
    /\ []C16_DebounceState
    /\ [][searchQuery' # searchQuery =>
            (searchQuery' = inputValue /\ sinceChange >= Delay)]_vars
    /\ <>[](~mounted \/ searchQuery = inputValue)

\* After two edits ("a" superseded by "ab" or the like) the timer has run:
\* the search query is the last input value and nothing is pending.
C16_Witness ==
    /\ mounted
    /\ changes >= 2
    /\ inputValue = "ab"
    /\ searchQuery = "ab"
    /\ lastCall # <<>> /\ lastCall[1].value = "ab"
    /\ timers = {}

\* C17: getCachedProducts returns the products last stored by cacheProducts
\* when both entries exist as written, the timestamp is less than one hour
\* (3600000 ms) old and nothing fails; in every other case (an entry missing,
\* the cache an hour old or older, a storage or parse failure) it returns
\* null. In particular it returns p within the hour after a successful
\* cacheProducts(p).
C17_CacheFreshness ==
    lastGet # <<>> =>
        LET g == lastGet[1]
            usable == /\ g.products # <<>>
                      /\ g.intact
                      /\ g.stamp # <<>>
                      /\ g.at - g.stamp[1] < 3600000
                      /\ ~g.failed
        IN  /\ usable => g.returned = g.products
            /\ ~usable => g.returned = <<>>

\* A non-empty list was cached and read back half an hour later.
C17_Witness ==
    /\ lastGet # <<>>
    /\ lastGet[1].returned = << <<2, 1>> >>
    /\ lastGet[1].stamp # <<>>
    /\ lastGet[1].at - lastGet[1].stamp[1] = 1800000

\* C18: after any changes of the minimum and maximum price, the filtered
\* list is exactly the products of the list before price filtering that have
\* an available price within the current range (so a range widened again
\* brings the excluded products back).
C18_FilterMatchesCurrentRange ==
    /\ Len(filteredProducts) =
           Cardinality({i \in 1..Len(unfilteredProducts) :
                           inPriceRange(unfilteredProducts[i], minPrice, maxPrice)})
    /\ \A i \in 1..Len(unfilteredProducts) :
           inPriceRange(unfilteredProducts[i], minPrice, maxPrice) <=>
               \E j \in 1..Len(filteredProducts) :
                   filteredProducts[j] = unfilteredProducts[i]

====
